---- MODULE Spec2Model ----
(***************************************************************************)
(* Realtime code-collaboration hub (backend/src/server.js, Socket.IO       *)
(* section) and the client sync agent (CodeEditorPanel).                   *)
(*                                                                         *)
(* The hub keeps two membership structures:                                *)
(*   rooms       - the application registry, Map roomId -> Map socketId -> *)
(*                 {userId, userName} (server.js line 46), kept in Map     *)
(*                 insertion order;                                        *)
(*   socketRooms - Socket.IO's own room membership (socket.rooms), changed *)
(*                 by socket.join / socket.leave and used by               *)
(*                 socket.to(roomId).emit to pick the receivers.           *)
(* Every handler runs to completion before the next one (single-threaded   *)
(* event loop), so each handler is one action.                             *)
(*                                                                         *)
(* Four specifications share the variables:                                *)
(*   Spec        - the hub handlers driven by two connections;             *)
(*   ClientSpec  - one CodeEditorPanel driven by edits, inbound events and *)
(*                 transport changes;                                      *)
(*   SessionSpec - the socket module (frontend/src/lib/socket.js) of one   *)
(*                 client against the hub, with a peer on the hub;         *)
(*   CollabSpec  - two CodeEditorPanels in one room with the hub relaying  *)
(*                 between them.                                           *)
(***************************************************************************)
EXTENDS Integers, Sequences, FiniteSets, TLC

\* ----------------------------------------------------------------- bounds
MaxEvents == 3
MaxInputs == 3
MaxRemote == 1
MaxSockets == 2
MaxCalls == 3

\* ------------------------------------------------------------ input sets
None == "-"
Conns == {"c1", "c2", "c3"}
\* the connections the hub specification lets connect
HubConns == {"c1", "c2"}
NamedRooms == {"r1", "r2"}
\* A roomId is an opaque caller-supplied string; it may spell a socket id.
RoomIds == NamedRooms \cup {"c1"}
Users == { [userId |-> "u1", userName |-> "Alice"],
           [userId |-> "u2", userName |-> "Bob"] }
Codes == {"x=1", "y=2"}
Languages == {"javascript", "python"}
Positions == {"1:1"}
\* what the relay handlers are driven with
RelayCodes == {"x=1"}
RelayLanguages == {"javascript"}
RelayUsers == { u \in Users : u.userId = "u2" }
\* the roomId and userId props of a CodeEditorPanel; None is a prop that is
\* still undefined
PanelProps == { [roomId |-> "r1", userId |-> "u1"], [roomId |-> "r1", userId |-> None] }
InitialCode == ""
\* the clients that render a CodeEditorPanel, named by their connection
Panels == {"c1", "c2"}

VARIABLES
  connected,    \* hub: connection id -> "new" (id not yet issued), "open"
                \*      (live socket) or "closed" (socket disconnected)
  socketRooms,  \* hub: connection id -> set of Socket.IO rooms it is in
  rooms,        \* hub: registry, sequence of [roomId, users] in Map order,
                \*      users a sequence of [socketId, userId, userName]
  inbox,        \* connection id -> sequence of events the hub sent to it
  clock,        \* number of hub handler invocations so far
  nEmit,        \* number of emit calls so far (stamps each emission)
  joined,       \* history: <<conn, roomId>> joined and not since left/disconnected
  last,         \* history: the handler that ran last, with the registry before it
  \* ---- one CodeEditorPanel per client, named by the client's connection
  props,            \* the panel's roomId and userId props
  phase,            \* "loading" (rendered, editorRef.current null), "mounted"
                    \* (editorRef.current set) or "unmounted" (torn down)
  code,             \* the code prop / parent state written by onCodeChange
  editorValue,      \* the content of the Monaco editor
  selectedLanguage, \* the selectedLanguage prop written by onLanguageChange
  isRemoteChange,   \* isRemoteChangeRef.current
  debounceTimer,    \* the timeout behind debounceTimerRef.current
  sockConnected,    \* socket.connected on the client
  emitted,          \* the events the panel handed to socket.emit, in order
  nInput,           \* number of local inputs (edits, language picks) so far
  nRemote,          \* number of inbound events handled so far
  windowEdits,      \* history: the local edits made while a timeout is pending
                    \* (the open debounce window)
  closed,           \* history: the edits and the emission of the window that
                    \* the last expired timeout ended
  did,              \* history: the panel handler that ran last
  \* ---- the socket module of one client (frontend/src/lib/socket.js)
  socket,           \* the module variable: NoSocket (null) or an instance
  sockets,          \* the Socket.IO client instances created by io(): state
                    \* "none" (not created), "opening" (connecting or
                    \* reconnecting, connected = false), "connected" or
                    \* "closed" (disconnect() called); id, the socket id the
                    \* hub gave the current connection; connects, how often
                    \* the instance has connected
  wire,             \* per instance, the events handed to emit that the hub
                    \* has not handled yet (send buffer and channel)
  nCall,            \* number of calls of the module's functions so far
  ret               \* history: the last call of getSocket, joinRoom or
                    \* disconnectSocket and the instance it returned or released

hubVars == <<connected, socketRooms, rooms, inbox, clock, nEmit, joined, last>>
clientVars == <<props, phase, code, editorValue, selectedLanguage, isRemoteChange,
                debounceTimer, sockConnected, emitted, nInput, nRemote,
                windowEdits, closed, did>>
moduleVars == <<socket, sockets, wire, nCall, ret>>
vars == <<hubVars, clientVars, moduleVars>>

\* --------------------------------------------------------------- registry
RECURSIVE SeqToSet(_)
SeqToSet(s) == IF s = <<>> THEN {} ELSE {Head(s)} \cup SeqToSet(Tail(s))

\* rooms.has(roomId)
Has(reg, roomId) == \E i \in 1..Len(reg) : reg[i].roomId = roomId

RoomIndex(reg, roomId) == CHOOSE i \in 1..Len(reg) : reg[i].roomId = roomId

\* rooms.get(roomId), <<>> standing for undefined
Get(reg, roomId) == IF Has(reg, roomId) THEN reg[RoomIndex(reg, roomId)].users ELSE <<>>

\* users.has(socket.id)
UsersHas(users, c) == \E i \in 1..Len(users) : users[i].socketId = c

\* users.get(socket.id)
UsersGet(users, c) == users[CHOOSE i \in 1..Len(users) : users[i].socketId = c]

\* users.set(socket.id, ...) on a list that takes a second entry for a key
UsersSet_Append(users, c, u) ==
  Append(users, [socketId |-> c, userId |-> u.userId, userName |-> u.userName])

\* users.set(socket.id, {userId, userName}): a Map keeps the position of an
\* existing key and appends a new one
UsersSet(users, c, u) ==
  LET e == [socketId |-> c, userId |-> u.userId, userName |-> u.userName]
  IN IF UsersHas(users, c)
       THEN [i \in 1..Len(users) |-> IF users[i].socketId = c THEN e ELSE users[i]]
       ELSE Append(users, e)

\* users.delete(socket.id) left out
UsersDelete_Keep(users, c) == users

\* users.delete(socket.id)
UsersDelete(users, c) == SelectSeq(users, LAMBDA e : e.socketId # c)

\* listParticipants(roomId): the connection ids registered in the room
Participants(reg, roomId) == { e.socketId : e \in SeqToSet(Get(reg, roomId)) }

RegistryKeys(reg) == { reg[i].roomId : i \in 1..Len(reg) }

\* the values with userName filled from userId
RoomUsers_NameTypo(users) ==
  [j \in 1..Len(users) |-> [userId |-> users[j].userId, userName |-> users[j].userId]]

\* Array.from(users.values()): the {userId, userName} values in Map order
RoomUsers(users) ==
  [j \in 1..Len(users) |-> [userId |-> users[j].userId, userName |-> users[j].userName]]

\* ------------------------------------------------------------- emissions
\* io.to(roomId): every socket in the room, the sender included
To_All(sr, c, roomId) == { d \in Conns : roomId \in sr[d] }

\* socket.to(roomId): every socket in Socket.IO room roomId except the sender
To(sr, c, roomId) == { d \in Conns : roomId \in sr[d] } \ {c}

Message(ev, seq, c, roomId) ==
  [event |-> ev, seq |-> seq, from |-> c, room |-> roomId,
   userId |-> None, userName |-> None, socketId |-> None,
   code |-> None, language |-> None, position |-> None,
   users |-> <<>>, timestamp |-> 0]

\* a channel that hands over the newest event first
Emit_Prepend(in, targets, m) ==
  [d \in Conns |-> IF d \in targets THEN <<m>> \o in[d] ELSE in[d]]

\* emit: append the event to the channel of every receiver
Emit(in, targets, m) ==
  [d \in Conns |-> IF d \in targets THEN Append(in[d], m) ELSE in[d]]

\* ------------------------------------------------------------------ Init
NoEvent == [event |-> None, conn |-> None, room |-> None, before |-> <<>>, first |-> 0]

NoTimer == [pending |-> FALSE, code |-> None, language |-> None]
NoWindow == [edits |-> <<>>, emits |-> <<>>]
NoOp == [op |-> None, k |-> None, applied |-> FALSE, notified |-> FALSE]
\* let socket = null
NoSocket == 0
Instances == 1..MaxSockets
NoInstance == [state |-> "none", id |-> None, connects |-> 0]
NoReturn == [op |-> None, value |-> NoSocket]

HubInit ==
  /\ connected = [c \in Conns |-> "new"]
  /\ socketRooms = [c \in Conns |-> {}]
  /\ rooms = <<>>
  /\ inbox = [c \in Conns |-> <<>>]
  /\ clock = 0
  /\ nEmit = 0
  /\ joined = {}
  /\ last = NoEvent

\* the refs and state of freshly rendered panels (lines 216-218)
PanelFirstRender ==
  /\ phase = [k \in Panels |-> "loading"]
  /\ code = [k \in Panels |-> InitialCode]
  /\ editorValue = [k \in Panels |-> InitialCode]
  /\ selectedLanguage = [k \in Panels |-> "javascript"]
  /\ isRemoteChange = [k \in Panels |-> FALSE]
  /\ debounceTimer = [k \in Panels |-> NoTimer]
  /\ emitted = [k \in Panels |-> <<>>]
  /\ nInput = [k \in Panels |-> 0]
  /\ nRemote = [k \in Panels |-> 0]
  /\ windowEdits = [k \in Panels |-> <<>>]
  /\ closed = [k \in Panels |-> NoWindow]
  /\ did = NoOp

\* panels rendered with a socket that has not connected yet
PanelInit ==
  /\ PanelFirstRender
  /\ sockConnected = [k \in Panels |-> FALSE]

\* the socket module after import: no instance yet
ModuleInit ==
  /\ socket = NoSocket
  /\ sockets = [i \in Instances |-> NoInstance]
  /\ wire = [i \in Instances |-> <<>>]
  /\ nCall = 0
  /\ ret = NoReturn

Init ==
  /\ HubInit
  /\ PanelInit
  /\ ModuleInit
  /\ props = [k \in Panels |-> [roomId |-> "r1", userId |-> "u1"]]

Handled(ev, c, roomId) ==
  [event |-> ev, conn |-> c, room |-> roomId, before |-> rooms, first |-> nEmit]

\* The order in which socket ids are issued (ids are fresh arbitrary names)
IdOrder == <<"c1", "c2", "c3">>

NextId == IdOrder[CHOOSE i \in 1..Len(IdOrder) :
                    /\ connected[IdOrder[i]] = "new"
                    /\ \A j \in 1..(i - 1) : connected[IdOrder[j]] # "new"]

\* io.on("connection"): a socket with a fresh id is created (a socket id is
\* never issued twice); Socket.IO puts every socket in the room named by its
\* own id
Connection(c) ==
  /\ connected[c] = "new"
  /\ c = NextId
  /\ connected' = [connected EXCEPT ![c] = "open"]
  /\ socketRooms' = [socketRooms EXCEPT ![c] = {c}]
  /\ last' = Handled("connection", c, None)
  /\ UNCHANGED clientVars
  /\ UNCHANGED <<rooms, inbox, clock, nEmit, joined>>

\* socket.on("join-room")
JoinRoom(c, roomId, u) ==
  /\ connected[c] = "open"
  /\ clock < MaxEvents
  /\ clock' = clock + 1
  /\ LET sr == [socketRooms EXCEPT ![c] = @ \cup {roomId}]
         withRoom == IF Has(rooms, roomId) THEN rooms
                     ELSE Append(rooms, [roomId |-> roomId, users |-> <<>>])
         i == RoomIndex(withRoom, roomId)
         reg == [withRoom EXCEPT ![i].users = UsersSet(@, c, u)]
         userJoined == [Message("user-joined", nEmit + 1, c, roomId) EXCEPT
                          !.userId = u.userId, !.userName = u.userName,
                          !.socketId = c]
         roomUsers == RoomUsers(Get(reg, roomId))
         roomUsersMsg == [Message("room-users", nEmit + 2, c, roomId) EXCEPT
                            !.users = roomUsers]
     IN /\ socketRooms' = sr
        /\ rooms' = reg
        /\ inbox' = Emit(Emit(inbox, To(sr, c, roomId), userJoined), {c}, roomUsersMsg)
        /\ nEmit' = nEmit + 2
  /\ joined' = joined \cup {<<c, roomId>>}
  /\ last' = Handled("join-room", c, roomId)
  /\ UNCHANGED clientVars
  /\ UNCHANGED connected

\* a relay that serves registered participants only
CodeChange_FromMember(c, roomId, codeIn, language, userId) ==
  /\ connected[c] = "open"
  /\ clock < MaxEvents
  /\ clock' = clock + 1
  /\ inbox' = Emit(inbox,
                   IF c \in Participants(rooms, roomId)
                     THEN To(socketRooms, c, roomId) ELSE {},
                   [Message("code-update", nEmit + 1, c, roomId) EXCEPT
                      !.code = codeIn, !.language = language, !.userId = userId,
                      !.timestamp = clock + 1])
  /\ nEmit' = nEmit + 1
  /\ last' = Handled("code-change", c, roomId)
  /\ UNCHANGED clientVars
  /\ UNCHANGED <<connected, socketRooms, rooms, joined>>

\* socket.on("code-change")
CodeChange(c, roomId, codeIn, language, userId) ==
  /\ connected[c] = "open"
  /\ clock < MaxEvents
  /\ clock' = clock + 1
  /\ inbox' = Emit(inbox, To(socketRooms, c, roomId),
                   [Message("code-update", nEmit + 1, c, roomId) EXCEPT
                      !.code = codeIn, !.language = language, !.userId = userId,
                      !.timestamp = clock + 1])
  /\ nEmit' = nEmit + 1
  /\ last' = Handled("code-change", c, roomId)
  /\ UNCHANGED clientVars
  /\ UNCHANGED <<connected, socketRooms, rooms, joined>>

\* socket.on("cursor-change")
CursorChange(c, roomId, position, u) ==
  /\ connected[c] = "open"
  /\ clock < MaxEvents
  /\ clock' = clock + 1
  /\ inbox' = Emit(inbox, To(socketRooms, c, roomId),
                   [Message("cursor-update", nEmit + 1, c, roomId) EXCEPT
                      !.position = position, !.userId = u.userId,
                      !.userName = u.userName, !.socketId = c])
  /\ nEmit' = nEmit + 1
  /\ last' = Handled("cursor-change", c, roomId)
  /\ UNCHANGED clientVars
  /\ UNCHANGED <<connected, socketRooms, rooms, joined>>

\* socket.on("language-change")
LanguageChange(c, roomId, language, userId) ==
  /\ connected[c] = "open"
  /\ clock < MaxEvents
  /\ clock' = clock + 1
  /\ inbox' = Emit(inbox, To(socketRooms, c, roomId),
                   [Message("language-update", nEmit + 1, c, roomId) EXCEPT
                      !.language = language, !.userId = userId])
  /\ nEmit' = nEmit + 1
  /\ last' = Handled("language-change", c, roomId)
  /\ UNCHANGED clientVars
  /\ UNCHANGED <<connected, socketRooms, rooms, joined>>

\* socket.on("run-code")
RunCode(c, roomId, codeIn, language, userId) ==
  /\ connected[c] = "open"
  /\ clock < MaxEvents
  /\ clock' = clock + 1
  /\ inbox' = Emit(inbox, To(socketRooms, c, roomId),
                   [Message("run-code", nEmit + 1, c, roomId) EXCEPT
                      !.code = codeIn, !.language = language, !.userId = userId,
                      !.timestamp = clock + 1])
  /\ nEmit' = nEmit + 1
  /\ last' = Handled("run-code", c, roomId)
  /\ UNCHANGED clientVars
  /\ UNCHANGED <<connected, socketRooms, rooms, joined>>

\* the loop body without the clean-up of an emptied room
DisconnectRoom_KeepEmpty(acc, e, sr, c) ==
  IF UsersHas(e.users, c)
    THEN LET user == UsersGet(e.users, c)
             users == UsersDelete(e.users, c)
             userLeft == [Message("user-left", acc.n + 1, c, e.roomId) EXCEPT
                            !.userId = user.userId, !.userName = user.userName,
                            !.socketId = c]
         IN [reg |-> Append(acc.reg, [roomId |-> e.roomId, users |-> users]),
             in |-> Emit(acc.in, To(sr, c, e.roomId), userLeft),
             n |-> acc.n + 1]
    ELSE [acc EXCEPT !.reg = Append(@, e)]

\* One pass of the loop body of the disconnect handler (lines 121-136) for the
\* registry entry e, on the accumulated [reg, in, n]
DisconnectRoom(acc, e, sr, c) ==
  IF UsersHas(e.users, c)
    THEN LET user == UsersGet(e.users, c)
             users == UsersDelete(e.users, c)
             userLeft == [Message("user-left", acc.n + 1, c, e.roomId) EXCEPT
                            !.userId = user.userId, !.userName = user.userName,
                            !.socketId = c]
         IN [reg |-> IF Len(users) = 0 THEN acc.reg
                     ELSE Append(acc.reg, [roomId |-> e.roomId, users |-> users]),
             in |-> Emit(acc.in, To(sr, c, e.roomId), userLeft),
             n |-> acc.n + 1]
    ELSE [acc EXCEPT !.reg = Append(@, e)]

\* the loop leaving at the first room that holds the connection
RECURSIVE DisconnectLoop_FirstOnly(_, _, _, _)
DisconnectLoop_FirstOnly(acc, entries, sr, c) ==
  IF entries = <<>> THEN acc
  ELSE IF UsersHas(Head(entries).users, c)
    THEN [DisconnectRoom(acc, Head(entries), sr, c) EXCEPT !.reg = @ \o Tail(entries)]
    ELSE DisconnectLoop_FirstOnly(DisconnectRoom(acc, Head(entries), sr, c),
                                  Tail(entries), sr, c)

\* for (const [roomId, users] of rooms.entries()), in Map order
RECURSIVE DisconnectLoop(_, _, _, _)
DisconnectLoop(acc, entries, sr, c) ==
  IF entries = <<>> THEN acc
  ELSE DisconnectLoop(DisconnectRoom(acc, Head(entries), sr, c), Tail(entries), sr, c)

\* socket.on("disconnect"): Socket.IO has already taken the socket out of all
\* its rooms when the handler runs
Disconnect(c) ==
  /\ connected[c] = "open"
  /\ clock < MaxEvents
  /\ clock' = clock + 1
  /\ connected' = [connected EXCEPT ![c] = "closed"]
  /\ LET sr == [socketRooms EXCEPT ![c] = {}]
         res == DisconnectLoop([reg |-> <<>>, in |-> inbox, n |-> nEmit], rooms, sr, c)
     IN /\ socketRooms' = sr
        /\ rooms' = res.reg
        /\ inbox' = res.in
        /\ nEmit' = res.n
  /\ joined' = { p \in joined : p[1] # c }
  /\ last' = Handled("disconnect", c, None)
  /\ UNCHANGED clientVars

\* leave-room dropping the whole registry entry of the room
LeaveRoom_DropRoom(c, roomId) ==
  /\ connected[c] = "open"
  /\ clock < MaxEvents
  /\ clock' = clock + 1
  /\ LET sr == [socketRooms EXCEPT ![c] = @ \ {roomId}]
     IN /\ socketRooms' = sr
        /\ IF Has(rooms, roomId) /\ UsersHas(Get(rooms, roomId), c)
             THEN LET i == RoomIndex(rooms, roomId)
                      user == UsersGet(rooms[i].users, c)
                      userLeft == [Message("user-left", nEmit + 1, c, roomId) EXCEPT
                                     !.userId = user.userId,
                                     !.userName = user.userName, !.socketId = c]
                  IN /\ rooms' = SelectSeq(rooms, LAMBDA e : e.roomId # roomId)
                     /\ inbox' = Emit(inbox, To(sr, c, roomId), userLeft)
                     /\ nEmit' = nEmit + 1
             ELSE UNCHANGED <<rooms, inbox, nEmit>>
  /\ joined' = joined \ {<<c, roomId>>}
  /\ last' = Handled("leave-room", c, roomId)
  /\ UNCHANGED clientVars
  /\ UNCHANGED connected

\* socket.on("leave-room")
LeaveRoom(c, roomId) ==
  /\ connected[c] = "open"
  /\ clock < MaxEvents
  /\ clock' = clock + 1
  /\ LET sr == [socketRooms EXCEPT ![c] = @ \ {roomId}]
     IN /\ socketRooms' = sr
        /\ IF Has(rooms, roomId) /\ UsersHas(Get(rooms, roomId), c)
             THEN LET i == RoomIndex(rooms, roomId)
                      user == UsersGet(rooms[i].users, c)
                      users == UsersDelete(rooms[i].users, c)
                      userLeft == [Message("user-left", nEmit + 1, c, roomId) EXCEPT
                                     !.userId = user.userId,
                                     !.userName = user.userName, !.socketId = c]
                  IN /\ rooms' = IF Len(users) = 0
                                   THEN SelectSeq(rooms, LAMBDA e : e.roomId # roomId)
                                   ELSE [rooms EXCEPT ![i].users = users]
                     /\ inbox' = Emit(inbox, To(sr, c, roomId), userLeft)
                     /\ nEmit' = nEmit + 1
             ELSE UNCHANGED <<rooms, inbox, nEmit>>
  /\ joined' = joined \ {<<c, roomId>>}
  /\ last' = Handled("leave-room", c, roomId)
  /\ UNCHANGED clientVars
  /\ UNCHANGED connected

Next ==
  \/ \E c \in HubConns : Connection(c) /\ UNCHANGED moduleVars
  \/ \E c \in HubConns, r \in RoomIds, u \in Users :
        JoinRoom(c, r, u) /\ UNCHANGED moduleVars
  \/ \E c \in HubConns, r \in RoomIds, t \in RelayCodes, l \in RelayLanguages,
          u \in RelayUsers : CodeChange(c, r, t, l, u.userId) /\ UNCHANGED moduleVars
  \/ \E c \in HubConns, r \in RoomIds, p \in Positions, u \in RelayUsers :
        CursorChange(c, r, p, u) /\ UNCHANGED moduleVars
  \/ \E c \in HubConns, r \in RoomIds, l \in RelayLanguages, u \in RelayUsers :
        LanguageChange(c, r, l, u.userId) /\ UNCHANGED moduleVars
  \/ \E c \in HubConns, r \in RoomIds, t \in RelayCodes, l \in RelayLanguages,
          u \in RelayUsers : RunCode(c, r, t, l, u.userId) /\ UNCHANGED moduleVars
  \/ \E c \in HubConns : Disconnect(c) /\ UNCHANGED moduleVars
  \/ \E c \in HubConns, r \in RoomIds : LeaveRoom(c, r) /\ UNCHANGED moduleVars


\* ============================================================ client panel
\* The panel whose behaviour the client specification explores
Editors == {"c1"}
\* inbound code-update / language-update payloads
RemoteUpdates == { [code |-> c, language |-> l, userId |-> u] :
                     c \in Codes, l \in {"python"}, u \in {"u1", "u2"} }

Last(q) == q[Len(q)]

Outbound(ev, k, c, l) ==
  [event |-> ev, roomId |-> props[k].roomId, code |-> c, language |-> l,
   userId |-> props[k].userId, connected |-> sockConnected[k]]

\* socket?.connected && roomId && userId
CanSync(k) == sockConnected[k] /\ props[k].roomId # None /\ props[k].userId # None

\* handleCodeChange with the echo flag never consulted
CodeChangeEffect_NoGuard(k, view, value) ==
  [view EXCEPT
     !.code = value,
     !.debounceTimer = IF CanSync(k)
                         THEN [pending |-> TRUE, code |-> value,
                               language |-> selectedLanguage[k]]
                         ELSE @]

\* handleCodeChange(value) (lines 230-255) on the panel's refs and state
\* view = [isRemoteChange, code, debounceTimer]
CodeChangeEffect(k, view, value) ==
  IF view.isRemoteChange
    THEN [view EXCEPT !.isRemoteChange = FALSE]
    ELSE [view EXCEPT
            !.code = value,
            !.debounceTimer = IF CanSync(k)
                                THEN [pending |-> TRUE, code |-> value,
                                      language |-> selectedLanguage[k]]
                                ELSE @]

View(k) == [isRemoteChange |-> isRemoteChange[k], code |-> code[k],
           debounceTimer |-> debounceTimer[k]]

Done(op, k, applied, notified) ==
  [op |-> op, k |-> k, applied |-> applied, notified |-> notified]

\* handleEditorDidMount: the editor shows the code prop
EditorDidMount(k) ==
  /\ phase[k] = "loading"
  /\ phase' = [phase EXCEPT ![k] = "mounted"]
  /\ editorValue' = [editorValue EXCEPT ![k] = code[k]]
  /\ did' = Done("handleEditorDidMount", k, FALSE, FALSE)
  /\ UNCHANGED hubVars
  /\ UNCHANGED <<props, code, selectedLanguage, isRemoteChange, debounceTimer,
                 sockConnected, emitted, nInput, nRemote, windowEdits, closed>>

\* The user changes the editor content; Monaco calls onChange = handleCodeChange
HandleCodeChange(k, value) ==
  /\ phase[k] = "mounted"
  /\ nInput[k] < MaxInputs
  /\ value # editorValue[k]
  /\ nInput' = [nInput EXCEPT ![k] = @ + 1]
  /\ editorValue' = [editorValue EXCEPT ![k] = value]
  /\ LET res == CodeChangeEffect(k, View(k), value)
     IN /\ isRemoteChange' = [isRemoteChange EXCEPT ![k] = res.isRemoteChange]
        /\ code' = [code EXCEPT ![k] = res.code]
        /\ debounceTimer' = [debounceTimer EXCEPT ![k] = res.debounceTimer]
        /\ windowEdits' = [windowEdits EXCEPT ![k] =
                             IF res.debounceTimer.pending THEN Append(@, value) ELSE @]
  /\ did' = Done("handleCodeChange", k, ~isRemoteChange[k], TRUE)
  /\ UNCHANGED hubVars
  /\ UNCHANGED <<props, phase, selectedLanguage, sockConnected, emitted, nRemote,
                 closed>>

\* The timeout set by handleCodeChange expires (lines 244-251)
TimerFire(k) ==
  /\ debounceTimer[k].pending
  /\ emitted' = [emitted EXCEPT ![k] =
                   Append(@, Outbound("code-change", k, debounceTimer[k].code,
                                      debounceTimer[k].language))]
  /\ debounceTimer' = [debounceTimer EXCEPT ![k] = NoTimer]
  /\ closed' = [closed EXCEPT ![k] = [edits |-> windowEdits[k],
                                      emits |-> <<debounceTimer[k].code>>]]
  /\ windowEdits' = [windowEdits EXCEPT ![k] = <<>>]
  /\ did' = Done("timeout", k, FALSE, FALSE)
  /\ UNCHANGED hubVars
  /\ UNCHANGED <<props, phase, code, editorValue, selectedLanguage, isRemoteChange,
                 sockConnected, nInput, nRemote>>

\* handleCodeUpdate without the comparison of the sender's user id
HandleCodeUpdate_NoGuard(k, m) ==
  /\ phase[k] # "unmounted"
  /\ nRemote[k] < MaxRemote
  /\ nRemote' = [nRemote EXCEPT ![k] = @ + 1]
  /\ LET set == [View(k) EXCEPT !.isRemoteChange = TRUE, !.code = m.code]
         res == IF phase[k] = "mounted"
                  THEN CodeChangeEffect(k, set, m.code) ELSE set
     IN /\ isRemoteChange' = [isRemoteChange EXCEPT ![k] = res.isRemoteChange]
        /\ code' = [code EXCEPT ![k] = res.code]
        /\ debounceTimer' = [debounceTimer EXCEPT ![k] = res.debounceTimer]
        /\ editorValue' = [editorValue EXCEPT ![k] =
                             IF phase[k] = "mounted" THEN m.code ELSE @]
        /\ did' = Done("handleCodeUpdate", k, m.userId # props[k].userId,
                       phase[k] = "mounted")
  /\ UNCHANGED <<props, phase, selectedLanguage, sockConnected, emitted, nInput,
                 windowEdits, closed>>
  /\ UNCHANGED hubVars

\* socket.on("code-update", handleCodeUpdate) (lines 263-283); the cursor
\* position the handler restores is not part of the state
HandleCodeUpdate(k, m) ==
  /\ phase[k] # "unmounted"
  /\ nRemote[k] < MaxRemote
  /\ nRemote' = [nRemote EXCEPT ![k] = @ + 1]
  /\ IF m.userId = props[k].userId
       THEN /\ did' = Done("handleCodeUpdate", k, FALSE, FALSE)
            /\ UNCHANGED <<isRemoteChange, code, debounceTimer, editorValue>>
       ELSE LET set == [View(k) EXCEPT !.isRemoteChange = TRUE, !.code = m.code]
                \* editorRef.current.setValue(remoteCode) makes Monaco call onChange
                res == IF phase[k] = "mounted"
                         THEN CodeChangeEffect(k, set, m.code) ELSE set
            IN /\ isRemoteChange' = [isRemoteChange EXCEPT ![k] = res.isRemoteChange]
               /\ code' = [code EXCEPT ![k] = res.code]
               /\ debounceTimer' = [debounceTimer EXCEPT ![k] = res.debounceTimer]
               /\ editorValue' = [editorValue EXCEPT ![k] =
                                    IF phase[k] = "mounted" THEN m.code ELSE @]
               /\ did' = Done("handleCodeUpdate", k, TRUE, phase[k] = "mounted")
  /\ UNCHANGED <<props, phase, selectedLanguage, sockConnected, emitted, nInput,
                 windowEdits, closed>>
  /\ UNCHANGED hubVars

\* socket.on("language-update", handleLanguageUpdate) (lines 285-293)
HandleLanguageUpdate(k, m) ==
  /\ phase[k] # "unmounted"
  /\ nRemote[k] < MaxRemote
  /\ nRemote' = [nRemote EXCEPT ![k] = @ + 1]
  /\ selectedLanguage' = [selectedLanguage EXCEPT ![k] =
                            IF m.userId = props[k].userId THEN @ ELSE m.language]
  /\ did' = Done("handleLanguageUpdate", k, m.userId # props[k].userId, FALSE)
  /\ UNCHANGED hubVars
  /\ UNCHANGED <<props, phase, code, editorValue, isRemoteChange, debounceTimer,
                 sockConnected, emitted, nInput, windowEdits, closed>>

\* handleLanguageChangeWithSync (lines 309-321)
HandleLanguageChangeWithSync(k, newLang) ==
  /\ phase[k] # "unmounted"
  /\ nInput[k] < MaxInputs
  /\ nInput' = [nInput EXCEPT ![k] = @ + 1]
  /\ selectedLanguage' = [selectedLanguage EXCEPT ![k] = newLang]
  /\ emitted' = [emitted EXCEPT ![k] =
                   IF CanSync(k)
                     THEN Append(@, Outbound("language-change", k, None, newLang))
                     ELSE @]
  /\ did' = Done("handleLanguageChangeWithSync", k, FALSE, FALSE)
  /\ UNCHANGED hubVars
  /\ UNCHANGED <<props, phase, code, editorValue, isRemoteChange, debounceTimer,
                 sockConnected, nRemote, windowEdits, closed>>

\* Component teardown: the cleanup effects (lines 300-303 and 326-332)
Unmount(k) ==
  /\ phase[k] # "unmounted"
  /\ phase' = [phase EXCEPT ![k] = "unmounted"]
  /\ debounceTimer' = [debounceTimer EXCEPT ![k] = NoTimer]
  /\ windowEdits' = [windowEdits EXCEPT ![k] = <<>>]
  /\ did' = Done("unmount", k, FALSE, FALSE)
  /\ UNCHANGED hubVars
  /\ UNCHANGED <<props, code, editorValue, selectedLanguage, isRemoteChange,
                 sockConnected, emitted, nInput, nRemote, closed>>

\* The client transport connects / reconnects (socket.connected becomes true)
TransportConnect(k) ==
  /\ ~sockConnected[k]
  /\ sockConnected' = [sockConnected EXCEPT ![k] = TRUE]
  /\ UNCHANGED <<did, hubVars>>
  /\ UNCHANGED <<props, phase, code, editorValue, selectedLanguage, isRemoteChange,
                 debounceTimer, emitted, nInput, nRemote, windowEdits, closed>>

\* The client transport drops (socket.connected becomes false)
TransportDisconnect(k) ==
  /\ sockConnected[k]
  /\ sockConnected' = [sockConnected EXCEPT ![k] = FALSE]
  /\ UNCHANGED <<did, hubVars>>
  /\ UNCHANGED <<props, phase, code, editorValue, selectedLanguage, isRemoteChange,
                 debounceTimer, emitted, nInput, nRemote, windowEdits, closed>>

ClientInit ==
  /\ HubInit
  /\ PanelInit
  /\ ModuleInit
  /\ \E p \in PanelProps : props = [k \in Panels |-> p]

ClientNext ==
  \/ \E k \in Editors : EditorDidMount(k) /\ UNCHANGED moduleVars
  \/ \E k \in Editors, v \in Codes : HandleCodeChange(k, v) /\ UNCHANGED moduleVars
  \/ \E k \in Editors : TimerFire(k) /\ UNCHANGED moduleVars
  \/ \E k \in Editors, m \in RemoteUpdates :
        HandleCodeUpdate(k, m) /\ UNCHANGED moduleVars
  \/ \E k \in Editors, m \in RemoteUpdates :
        HandleLanguageUpdate(k, m) /\ UNCHANGED moduleVars
  \/ \E k \in Editors, l \in Languages :
        HandleLanguageChangeWithSync(k, l) /\ UNCHANGED moduleVars
  \/ \E k \in Editors : Unmount(k) /\ UNCHANGED moduleVars
  \/ \E k \in Editors : TransportConnect(k) /\ UNCHANGED moduleVars
  \/ \E k \in Editors : TransportDisconnect(k) /\ UNCHANGED moduleVars

ClientSpec == ClientInit /\ [][ClientNext]_vars


Spec == Init /\ [][Next]_vars


\* ========================================================== socket module
\* One client using frontend/src/lib/socket.js against the hub, and a peer
\* that talks to the hub directly.
ClientUser == [userId |-> "u1", userName |-> "Alice"]
PeerUser == [userId |-> "u2", userName |-> "Bob"]
ClientRooms == {"r1"}
\* the rooms the peer addresses; a roomId may spell the id of a socket
PeerRooms == {"r1", "c3"}

Created == { i \in Instances : sockets[i].state # "none" }
\* the instance the next io() call makes
Fresh == CHOOSE i \in Instances \ Created : \A j \in Instances \ Created : i <= j

\* socket?.connected || false
isSocketConnected == socket # NoSocket /\ sockets[socket].state = "connected"

\* getSocket() on the module state: [socket, sockets] after the call; io()
\* starts connecting at once (autoConnect)
GetSocketEffect ==
  IF socket = NoSocket
    THEN [socket |-> Fresh,
          sockets |-> [sockets EXCEPT ![Fresh] =
                         [state |-> "opening", id |-> None, connects |-> 0]]]
    ELSE [socket |-> socket, sockets |-> sockets]

\* socket.emit(ev, payload) on instance i: the event waits in the instance's
\* send buffer, or in the channel, until the hub handles it
SocketEmit(w, i, sks, ev, roomId, u) ==
  [w EXCEPT ![i] = Append(@, [event |-> ev, roomId |-> roomId,
                              userId |-> u.userId, userName |-> u.userName,
                              connected |-> sks[i].state = "connected"])]

Returned(op, value) == [op |-> op, value |-> value]

\* getSocket(serverUrl)
getSocket ==
  /\ nCall < MaxCalls
  /\ socket # NoSocket \/ Created # Instances
  /\ nCall' = nCall + 1
  /\ socket' = GetSocketEffect.socket
  /\ sockets' = GetSocketEffect.sockets
  /\ ret' = Returned("getSocket", GetSocketEffect.socket)
  /\ UNCHANGED wire
  /\ UNCHANGED hubVars
  /\ UNCHANGED clientVars

\* disconnectSocket() forgetting the instance without disconnecting it
disconnectSocket_ForgetOnly ==
  /\ nCall < MaxCalls
  /\ nCall' = nCall + 1
  /\ socket' = NoSocket
  /\ ret' = Returned("disconnectSocket", socket)
  /\ UNCHANGED <<sockets, wire>>
  /\ UNCHANGED hubVars
  /\ UNCHANGED clientVars

\* disconnectSocket(): socket.disconnect() closes the connection, on which the
\* hub runs its disconnect handler, and the module forgets the instance
disconnectSocket ==
  /\ nCall < MaxCalls
  /\ nCall' = nCall + 1
  /\ IF socket # NoSocket
       THEN /\ sockets' = [sockets EXCEPT ![socket].state = "closed", ![socket].id = None]
            /\ socket' = NoSocket
            /\ IF sockets[socket].state = "connected"
                 THEN Disconnect(sockets[socket].id)
                 ELSE UNCHANGED hubVars
       ELSE /\ UNCHANGED <<socket, sockets>>
            /\ UNCHANGED hubVars
  /\ ret' = Returned("disconnectSocket", socket)
  /\ UNCHANGED wire
  /\ UNCHANGED clientVars

\* joinRoom(roomId, userId, userName)
joinRoom(roomId, u) ==
  /\ nCall < MaxCalls
  /\ socket # NoSocket \/ Created # Instances
  /\ nCall' = nCall + 1
  /\ socket' = GetSocketEffect.socket
  /\ sockets' = GetSocketEffect.sockets
  /\ wire' = SocketEmit(wire, GetSocketEffect.socket, GetSocketEffect.sockets,
                        "join-room", roomId, u)
  /\ ret' = Returned("joinRoom", GetSocketEffect.socket)
  /\ UNCHANGED hubVars
  /\ UNCHANGED clientVars

\* leaveRoom(roomId)
leaveRoom(roomId) ==
  /\ nCall < MaxCalls
  /\ nCall' = nCall + 1
  /\ wire' = IF socket # NoSocket
               THEN SocketEmit(wire, socket, sockets, "leave-room", roomId,
                               [userId |-> None, userName |-> None])
               ELSE wire
  /\ UNCHANGED <<socket, sockets, ret>>
  /\ UNCHANGED hubVars
  /\ UNCHANGED clientVars

\* emitCodeChange(roomId, code, language, userId)
emitCodeChange(roomId, u) ==
  /\ nCall < MaxCalls
  /\ nCall' = nCall + 1
  /\ wire' = IF isSocketConnected
               THEN SocketEmit(wire, socket, sockets, "code-change", roomId, u)
               ELSE wire
  /\ UNCHANGED <<socket, sockets, ret>>
  /\ UNCHANGED hubVars
  /\ UNCHANGED clientVars

\* emitCursorChange(roomId, position, userId, userName)
emitCursorChange(roomId, u) ==
  /\ nCall < MaxCalls
  /\ nCall' = nCall + 1
  /\ wire' = IF isSocketConnected
               THEN SocketEmit(wire, socket, sockets, "cursor-change", roomId, u)
               ELSE wire
  /\ UNCHANGED <<socket, sockets, ret>>
  /\ UNCHANGED hubVars
  /\ UNCHANGED clientVars

\* emitLanguageChange(roomId, language, userId)
emitLanguageChange(roomId, u) ==
  /\ nCall < MaxCalls
  /\ nCall' = nCall + 1
  /\ wire' = IF isSocketConnected
               THEN SocketEmit(wire, socket, sockets, "language-change", roomId, u)
               ELSE wire
  /\ UNCHANGED <<socket, sockets, ret>>
  /\ UNCHANGED hubVars
  /\ UNCHANGED clientVars

\* The transport of instance i connects or, after a drop, reconnects
\* (reconnection: true): the hub's connection handler runs for a socket with
\* a fresh id; the listeners the module registered (lines 33-35, 45-47) log
SocketConnect(i) ==
  /\ sockets[i].state = "opening"
  /\ \E c \in Conns :
       /\ Connection(c)
       /\ sockets' = [sockets EXCEPT ![i].state = "connected", ![i].id = c,
                                     ![i].connects = @ + 1]
  /\ UNCHANGED <<socket, wire, nCall, ret>>

\* The transport of instance i drops: the hub's disconnect handler runs for
\* its socket, the listener (lines 37-39) logs and the instance starts to
\* reconnect
SocketDrop(i) ==
  /\ sockets[i].state = "connected"
  /\ Disconnect(sockets[i].id)
  /\ sockets' = [sockets EXCEPT ![i].state = "opening", ![i].id = None]
  /\ UNCHANGED <<socket, wire, nCall, ret>>

\* The hub handles the oldest event that connected instance i has emitted
Deliver(i) ==
  /\ sockets[i].state = "connected"
  /\ wire[i] # <<>>
  /\ LET e == Head(wire[i])
         c == sockets[i].id
         u == [userId |-> e.userId, userName |-> e.userName]
     IN CASE e.event = "join-room" -> JoinRoom(c, e.roomId, u)
          [] e.event = "leave-room" -> LeaveRoom(c, e.roomId)
          [] e.event = "code-change" ->
               \E t \in RelayCodes, l \in RelayLanguages :
                 CodeChange(c, e.roomId, t, l, e.userId)
          [] e.event = "cursor-change" ->
               \E p \in Positions : CursorChange(c, e.roomId, p, u)
          [] e.event = "language-change" ->
               \E l \in RelayLanguages : LanguageChange(c, e.roomId, l, e.userId)
  /\ wire' = [wire EXCEPT ![i] = Tail(@)]
  /\ UNCHANGED <<socket, sockets, nCall, ret>>

\* the open connections that are not the client's
PeerConns == { c \in Conns : /\ connected[c] = "open"
                             /\ \A i \in Instances : sockets[i].id # c }

PeerConnects ==
  /\ PeerConns = {}
  /\ \E c \in Conns : Connection(c)
  /\ UNCHANGED moduleVars

PeerJoins(c, roomId) ==
  /\ c \in PeerConns
  /\ JoinRoom(c, roomId, PeerUser)
  /\ UNCHANGED moduleVars

PeerEdits(c, roomId) ==
  /\ c \in PeerConns
  /\ \E t \in RelayCodes, l \in RelayLanguages :
       CodeChange(c, roomId, t, l, PeerUser.userId)
  /\ UNCHANGED moduleVars

SessionNext ==
  \/ getSocket
  \/ disconnectSocket
  \/ \E r \in ClientRooms : joinRoom(r, ClientUser)
  \/ \E r \in ClientRooms : leaveRoom(r)
  \/ \E r \in ClientRooms : emitCodeChange(r, ClientUser)
  \/ \E r \in ClientRooms : emitCursorChange(r, ClientUser)
  \/ \E r \in ClientRooms : emitLanguageChange(r, ClientUser)
  \/ \E i \in Instances : SocketConnect(i)
  \/ \E i \in Instances : SocketDrop(i)
  \/ \E i \in Instances : Deliver(i)
  \/ PeerConnects
  \/ \E c \in Conns, r \in ClientRooms : PeerJoins(c, r)
  \/ \E c \in Conns, r \in PeerRooms : PeerEdits(c, r)

SessionSpec == Init /\ [][SessionNext]_vars

\* ======================================================= two participants
\* Two clients, each with a CodeEditorPanel, in one room: the panel of client
\* k emits through the socket whose hub id is k, the hub relays, and the other
\* panel handles what arrives in its inbox.
PanelUser(k) == IF k = "c1" THEN [userId |-> "u1", userName |-> "Alice"]
                ELSE [userId |-> "u2", userName |-> "Bob"]
SharedRoom == "r1"

\* The hub after both clients have connected and each has joined SharedRoom
\* (Connection, Connection, JoinRoom, JoinRoom); the inboxes and the counters
\* start from here, and the sockets of both clients are connected
CollabHubInit ==
  /\ connected = [c \in Conns |-> IF c \in Panels THEN "open" ELSE "new"]
  /\ socketRooms = [c \in Conns |-> IF c \in Panels THEN {c, SharedRoom} ELSE {}]
  /\ rooms = <<[roomId |-> SharedRoom,
                users |-> UsersSet(UsersSet(<<>>, "c1", PanelUser("c1")),
                                   "c2", PanelUser("c2"))]>>
  /\ inbox = [c \in Conns |-> <<>>]
  /\ clock = 0
  /\ nEmit = 0
  /\ joined = { <<c, SharedRoom>> : c \in Panels }
  /\ last = NoEvent

CollabInit ==
  /\ CollabHubInit
  /\ PanelFirstRender
  /\ sockConnected = [k \in Panels |-> TRUE]
  /\ ModuleInit
  /\ props = [k \in Panels |-> [roomId |-> SharedRoom, userId |-> PanelUser(k).userId]]

\* the code-update events in the inbox of client k, in order of arrival
CodeUpdates(k) == SelectSeq(inbox[k], LAMBDA m : m.event = "code-update")
\* the code-change events of panel k that the hub has handled: each was
\* relayed to the other participant of the room
Relayed(k) ==
  Cardinality({ m \in UNION { SeqToSet(inbox[d]) : d \in Panels \ {k} } :
                  m.event = "code-update" /\ m.from = k })

\* The hub handles the oldest code-change of panel k that it has not handled
HubRelays(k) ==
  /\ Relayed(k) < Len(emitted[k])
  /\ LET e == emitted[k][Relayed(k) + 1]
     IN CodeChange(k, e.roomId, e.code, e.language, e.userId)
  /\ UNCHANGED moduleVars

\* Panel k handles the oldest code-update in its inbox that it has not handled
PanelReceives(k) ==
  /\ nRemote[k] < Len(CodeUpdates(k))
  /\ LET m == CodeUpdates(k)[nRemote[k] + 1]
     IN HandleCodeUpdate(k, [code |-> m.code, language |-> m.language,
                             userId |-> m.userId])
  /\ UNCHANGED moduleVars

CollabNext ==
  \/ \E k \in Panels : EditorDidMount(k) /\ UNCHANGED moduleVars
  \/ \E k \in Panels, v \in Codes : HandleCodeChange(k, v) /\ UNCHANGED moduleVars
  \/ \E k \in Panels : TimerFire(k) /\ UNCHANGED moduleVars
  \/ \E k \in Panels : HubRelays(k)
  \/ \E k \in Panels : PanelReceives(k)

CollabSpec == CollabInit /\ [][CollabNext]_vars

\* =================================================================== hub
\* Helpers for the properties: who got the emission stamped seq, and how often
Copies(c, seq) == { i \in 1..Len(inbox[c]) : inbox[c][i].seq = seq }
Receivers(seq) == { c \in Conns : Copies(c, seq) # {} }
TheCopy(c, seq) == inbox[c][CHOOSE i \in Copies(c, seq) : TRUE]
RoomsOf(reg, c) == { r \in RoomIds : c \in Participants(reg, r) }
RelayEvents == {"code-change", "cursor-change", "language-change", "run-code"}
RelayedEvents == {"code-update", "cursor-update", "language-update", "run-code"}

\* C1 - Membership consistency: the participant set recorded for every room id
\* is exactly the set of connections that processed a join-room for it and
\* have not since processed a leave-room for it or a disconnect.
C1_MembershipConsistency ==
  \A r \in RoomIds : Participants(rooms, r) = { c \in Conns : <<c, r>> \in joined }

\* A connection left or disconnected from a room that others stay in.
C1_Witness ==
  /\ last.event \in {"leave-room", "disconnect"}
  /\ \E r \in NamedRooms : /\ last.conn \in Participants(last.before, r)
                           /\ last.conn \notin Participants(rooms, r)
                           /\ Participants(rooms, r) # {}

\* C2 - Room garbage collection: a room id is a key of the registry iff it has
\* at least one participant (no entry persists with zero participants), each
\* key occurring once.
C2_RoomGarbageCollection ==
  /\ \A r \in RoomIds : r \in RegistryKeys(rooms) <=> Participants(rooms, r) # {}
  /\ \A i, j \in 1..Len(rooms) : rooms[i].roomId = rooms[j].roomId => i = j

\* The last participant of a room left or disconnected and the entry is gone.
C2_Witness ==
  /\ last.event \in {"leave-room", "disconnect"}
  /\ \E r \in NamedRooms : /\ Participants(last.before, r) = {last.conn}
                           /\ r \notin RegistryKeys(rooms)

\* C3 - No self-echo: no relayed mutation event, user-joined or user-left is
\* ever delivered to the connection that originated it.
C3_NoSelfEcho ==
  \A c \in Conns : \A i \in 1..Len(inbox[c]) :
    inbox[c][i].event \in RelayedEvents \cup {"user-joined", "user-left"}
      => inbox[c][i].from # c

\* A participant relayed a mutation event into its own room and a peer got it.
C3_Witness ==
  /\ last.event \in RelayEvents
  /\ last.room \in NamedRooms
  /\ last.conn \in Participants(rooms, last.room)
  /\ Receivers(last.first + 1) # {}

\* C4 (as claimed) - on join-room the room-users sent to the joiner lists the
\* other participants only (the snapshot before insertion) and not the joiner,
\* and every other participant receives one user-joined with the joiner's
\* userId and userName.
C4_JoinNotification_Claimed ==
  last.event = "join-room" =>
    LET c == last.conn
        r == last.room
        me == UsersGet(Get(rooms, r), c)
        others == SelectSeq(Get(rooms, r), LAMBDA e : e.socketId # c)
    IN /\ Receivers(last.first + 2) = {c}
       /\ Cardinality(Copies(c, last.first + 2)) = 1
       /\ TheCopy(c, last.first + 2).event = "room-users"
       /\ Len(TheCopy(c, last.first + 2).users) = Len(others)
       /\ \A j \in 1..Len(others) :
            TheCopy(c, last.first + 2).users[j] =
              [userId |-> others[j].userId, userName |-> others[j].userName]
       /\ \A d \in Participants(rooms, r) \ {c} :
            /\ Cardinality(Copies(d, last.first + 1)) = 1
            /\ TheCopy(d, last.first + 1).event = "user-joined"
            /\ TheCopy(d, last.first + 1).userId = me.userId
            /\ TheCopy(d, last.first + 1).userName = me.userName

\* C4 (amended) - on join-room the room-users sent to the joiner lists every
\* participant of the room after the insertion, the joiner's own entry
\* included, and every other participant receives one user-joined with the
\* joiner's userId and userName.
C4_JoinNotification ==
  last.event = "join-room" =>
    LET c == last.conn
        r == last.room
        me == UsersGet(Get(rooms, r), c)
    IN /\ Receivers(last.first + 2) = {c}
       /\ Cardinality(Copies(c, last.first + 2)) = 1
       /\ TheCopy(c, last.first + 2).event = "room-users"
       /\ Len(TheCopy(c, last.first + 2).users) = Len(Get(rooms, r))
       /\ \A j \in 1..Len(Get(rooms, r)) :
            TheCopy(c, last.first + 2).users[j] =
              [userId |-> Get(rooms, r)[j].userId,
               userName |-> Get(rooms, r)[j].userName]
       /\ \E j \in 1..Len(Get(rooms, r)) : Get(rooms, r)[j].socketId = c
       /\ \A d \in Participants(rooms, r) \ {c} :
            /\ Cardinality(Copies(d, last.first + 1)) = 1
            /\ TheCopy(d, last.first + 1).event = "user-joined"
            /\ TheCopy(d, last.first + 1).userId = me.userId
            /\ TheCopy(d, last.first + 1).userName = me.userName

\* A connection joined a room that already had another participant.
C4_Witness ==
  /\ last.event = "join-room"
  /\ last.room \in NamedRooms
  /\ Participants(last.before, last.room) \ {last.conn} # {}

\* C5 - Disconnect departure: a disconnecting connection is removed from every
\* room that contained it, every remaining participant of such a room receives
\* one user-left with the userId and userName the connection last registered
\* there, and the rooms that did not contain it are unchanged.
C5_DisconnectDeparture ==
  last.event = "disconnect" =>
    \A r \in RoomIds :
      IF last.conn \in Participants(last.before, r)
        THEN /\ last.conn \notin Participants(rooms, r)
             /\ Participants(rooms, r) = Participants(last.before, r) \ {last.conn}
             /\ \A d \in Participants(rooms, r) :
                  \E i \in 1..Len(inbox[d]) :
                    /\ inbox[d][i].seq > last.first
                    /\ inbox[d][i].event = "user-left"
                    /\ inbox[d][i].room = r
                    /\ inbox[d][i].socketId = last.conn
                    /\ inbox[d][i].userId = UsersGet(Get(last.before, r), last.conn).userId
                    /\ inbox[d][i].userName = UsersGet(Get(last.before, r), last.conn).userName
                    /\ \A k \in 1..Len(inbox[d]) :
                         (inbox[d][k].seq > last.first /\ inbox[d][k].room = r) => k = i
        ELSE Get(rooms, r) = Get(last.before, r)

\* A connection disconnected from a room in which another participant remains.
C5_Witness ==
  /\ last.event = "disconnect"
  /\ \E r \in NamedRooms : /\ last.conn \in Participants(last.before, r)
                           /\ Participants(rooms, r) # {}

\* C8 (as claimed) - Single-room membership: a connection id appears in at most
\* one room's participant set.
C8_SingleRoomMembership ==
  \A c \in Conns : Cardinality(RoomsOf(rooms, c)) <= 1

\* C9 (as claimed) - Relay target set: a mutation event addressed to a room id
\* is delivered to exactly the registered participants of that room, minus the
\* originating connection.
C9_RelayTargetSet ==
  last.event \in RelayEvents =>
    Receivers(last.first + 1) = Participants(rooms, last.room) \ {last.conn}

C13_LeaveRoomFrame ==
  last.event = "leave-room" =>
    LET c == last.conn
        r == last.room
    IN /\ IF c \in Participants(last.before, r)
            THEN /\ Participants(rooms, r) = Participants(last.before, r) \ {c}
                 /\ Get(rooms, r) =
                      SelectSeq(Get(last.before, r), LAMBDA e : e.socketId # c)
                 /\ nEmit = last.first + 1
                 /\ \A d \in Participants(rooms, r) :
                      /\ Cardinality(Copies(d, last.first + 1)) = 1
                      /\ TheCopy(d, last.first + 1).event = "user-left"
                      /\ TheCopy(d, last.first + 1).room = r
                      /\ TheCopy(d, last.first + 1).socketId = c
            ELSE /\ rooms = last.before
                 /\ nEmit = last.first
                 /\ \A d \in Conns : \A i \in 1..Len(inbox[d]) :
                      inbox[d][i].seq <= last.first
       /\ \A r2 \in RoomIds \ {r} : Get(rooms, r2) = Get(last.before, r2)

\* A participant left a room in which another participant stays, who received
\* the user-left.
C13_Witness ==
  /\ last.event = "leave-room"
  /\ last.room \in NamedRooms
  /\ last.conn \in Participants(last.before, last.room)
  /\ Participants(rooms, last.room) # {}
  /\ Participants(rooms, last.room) \subseteq Receivers(last.first + 1)

\* C16 - Duplicate registration overwrites: a join-room by a connection that
\* is already a participant of the room leaves the room with exactly one entry
\* for that connection, holding the userId and userName of this join; the
\* number of entries of the room is unchanged and no other entry of this room
\* or of another room changes.
C16_DuplicateRegistration ==
  [][ \A c \in Conns, r \in RoomIds, u \in Users :
        (JoinRoom(c, r, u) /\ c \in Participants(rooms, r)) =>
          /\ Cardinality({ i \in 1..Len(Get(rooms', r)) :
                             Get(rooms', r)[i].socketId = c }) = 1
          /\ UsersGet(Get(rooms', r), c) =
               [socketId |-> c, userId |-> u.userId, userName |-> u.userName]
          /\ Len(Get(rooms', r)) = Len(Get(rooms, r))
          /\ \A i \in 1..Len(Get(rooms, r)) :
               Get(rooms, r)[i].socketId # c => Get(rooms', r)[i] = Get(rooms, r)[i]
          /\ \A r2 \in RoomIds \ {r} : Get(rooms', r2) = Get(rooms, r2) ]_vars

\* A participant of a room with two entries joined it again under another
\* user id.
C16_Witness ==
  /\ last.event = "join-room"
  /\ last.conn \in Participants(last.before, last.room)
  /\ Len(Get(rooms, last.room)) = 2
  /\ UsersGet(Get(rooms, last.room), last.conn).userId #
       UsersGet(Get(last.before, last.room), last.conn).userId

\* C17 - Non-member relay: a code-change, cursor-change, language-change or
\* run-code sent by a connection that is not a registered participant of the
\* addressed room is delivered, once, to every registered participant of that
\* room, and handling it leaves the registry as it was.
C17_NonMemberRelay ==
  (last.event \in RelayEvents /\ last.conn \notin Participants(last.before, last.room))
    => /\ rooms = last.before
       /\ \A d \in Participants(rooms, last.room) :
            /\ Cardinality(Copies(d, last.first + 1)) = 1
            /\ TheCopy(d, last.first + 1).from = last.conn
            /\ TheCopy(d, last.first + 1).room = last.room

\* A connection that is in no room sent a code-change to a room that has a
\* participant, who received it.
C17_Witness ==
  /\ last.event = "code-change"
  /\ last.room \in NamedRooms
  /\ RoomsOf(last.before, last.conn) = {}
  /\ Participants(rooms, last.room) # {}
  /\ Participants(rooms, last.room) \subseteq Receivers(last.first + 1)

\* ============================================================ client panel
\* C6 (as claimed) - Debounce coalescing: the local edits made within one
\* debounce window (from the scheduling of a timeout to its expiry) produce
\* exactly one code-change, and it carries the value of the last of them, also
\* when socket.connected changes between the edits.
C6_DebounceCoalescing ==
  \A k \in Panels :
    closed[k].edits # <<>> =>
      /\ Len(closed[k].emits) = 1
      /\ closed[k].emits[1] = Last(closed[k].edits)

\* C7 - Echo suppression round-trip: applying a code-update received from
\* another user, together with the change notification it causes, neither
\* schedules a timeout nor emits anything.
C7_EchoSuppression ==
  [][ (did'.op = "handleCodeUpdate" /\ did'.applied /\ nRemote' # nRemote)
        => (debounceTimer' = debounceTimer /\ emitted' = emitted) ]_vars

\* A connected panel with room and user id applied a remote code-update to a
\* mounted editor, which notified the change.
C7_Witness ==
  /\ did.op = "handleCodeUpdate"
  /\ did.applied
  /\ did.notified
  /\ CanSync(did.k)
  /\ code[did.k] # InitialCode
  /\ ~isRemoteChange[did.k]

\* C14 (as claimed) - Debounce timer cancellation: no code-change is emitted
\* by a panel that was torn down, and every code-change that is emitted carries
\* the value of the panel's most recent local edit (the last edit made since
\* the expiring timeout was scheduled).
C14_TimerCancellation ==
  [][ \A k \in Panels :
        (Len(emitted'[k]) > Len(emitted[k]) /\ Last(emitted'[k]).event = "code-change")
          => /\ phase[k] # "unmounted"
             /\ windowEdits[k] # <<>>
             /\ Last(emitted'[k]).code = Last(windowEdits[k]) ]_vars

\* C15 - Protocol-level self-echo guard: a code-update or language-update whose
\* userId equals the panel's own userId changes neither the code buffer, the
\* editor content, the language, the flag nor the timeout; a code-update of
\* another user sets the flag and replaces the buffer by the remote code (the
\* flag still being set afterwards unless the editor's change notification
\* consumed it), and a language-update of another user replaces the language.
C15_SelfEchoGuard ==
  [][ \A k \in Panels, m \in RemoteUpdates :
        /\ ((HandleCodeUpdate(k, m) \/ HandleLanguageUpdate(k, m))
              /\ m.userId = props[k].userId)
             => /\ code'[k] = code[k]
                /\ editorValue'[k] = editorValue[k]
                /\ selectedLanguage'[k] = selectedLanguage[k]
                /\ isRemoteChange'[k] = isRemoteChange[k]
                /\ debounceTimer'[k] = debounceTimer[k]
                /\ emitted'[k] = emitted[k]
        /\ (HandleCodeUpdate(k, m) /\ m.userId # props[k].userId)
             => /\ did'.applied
                /\ code'[k] = m.code
                /\ isRemoteChange'[k] = ~did'.notified
        /\ (HandleLanguageUpdate(k, m) /\ m.userId # props[k].userId)
             => /\ selectedLanguage'[k] = m.language
                /\ code'[k] = code[k]
                /\ isRemoteChange'[k] = isRemoteChange[k]
                /\ debounceTimer'[k] = debounceTimer[k] ]_vars

\* A panel with a local edit pending in its timeout discarded a code-update
\* that carries its own user id.
C15_Witness ==
  /\ did.op = "handleCodeUpdate"
  /\ ~did.applied
  /\ nRemote[did.k] = 1
  /\ props[did.k].userId = "u1"
  /\ debounceTimer[did.k].pending
  /\ code[did.k] # InitialCode

\* C18 (as claimed) - No lost local edit through echo suppression: every local
\* edit updates the code buffer and, when the socket is connected and the
\* panel has a room and a user id, schedules a code-change with its value.
C18_NoLostLocalEdit ==
  [][ \A k \in Panels, v \in Codes :
        HandleCodeChange(k, v)
          => /\ code'[k] = v
             /\ CanSync(k) => /\ debounceTimer'[k].pending
                               /\ debounceTimer'[k].code = v ]_vars

\* C19 (as claimed) - No emission while disconnected: no code-change or
\* language-change is handed to socket.emit while socket.connected is false.
C19_NoEmitDisconnected ==
  \A k \in Panels : \A i \in 1..Len(emitted[k]) : emitted[k][i].connected

\* ========================================================== socket module
\* the hub has handled a join-room of connection c (it answers each with a
\* room-users to c)
JoinProcessed(c) == \E j \in 1..Len(inbox[c]) : inbox[c][j].event = "room-users"
InNoRoom(c) == \A j \in 1..Len(rooms) : ~UsersHas(rooms[j].users, c)
\* connection c belongs to an instance that has reconnected
Reconnected(c) ==
  \E i \in Instances : /\ sockets[i].state = "connected"
                        /\ sockets[i].connects >= 2
                        /\ sockets[i].id = c
NotRejoinedIsOutside ==
  \A c \in Conns :
    (Reconnected(c) /\ ~JoinProcessed(c)) => (InNoRoom(c) /\ inbox[c] = <<>>)

\* C11 (as claimed) - Reconnection without rejoin: the connection of a socket
\* that has reconnected is in no room's participant set and has received no
\* event until the hub has handled a join-room from it, and the (re)connect
\* of a socket emits nothing.
C11_ReconnectWithoutRejoin ==
  [][ /\ NotRejoinedIsOutside'
      /\ \A i \in Instances : SocketConnect(i) => wire' = wire ]_vars

Live == { i \in Instances : sockets[i].state \in {"opening", "connected"} }

\* C12 - Singleton client connection: the only socket instance that is not
\* closed is the one the module variable holds; getSocket returns the instance
\* the module holds and leaves it in place; the module variable changes from
\* an instance only in disconnectSocket, which closes that instance and then
\* forgets it.
C12_SingletonSocket ==
  [][ /\ Live' \subseteq {socket'}
      /\ Cardinality(Live') <= 1
      /\ (getSocket /\ socket # NoSocket) => (ret'.value = socket /\ socket' = socket)
      /\ getSocket => (ret'.value = socket' /\ socket' \in Live')
      /\ (socket # NoSocket /\ socket' # socket) => disconnectSocket
      /\ (disconnectSocket /\ socket # NoSocket)
           => (sockets'[socket].state = "closed" /\ socket' = NoSocket) ]_vars

\* getSocket returned a second instance after disconnectSocket had closed the
\* first one, which had been connected.
C12_Witness ==
  /\ ret.op = "getSocket"
  /\ ret.value = 2
  /\ socket = 2
  /\ sockets[1].state = "closed"
  /\ sockets[1].connects >= 1
  /\ sockets[2].state = "opening"

\* ======================================================= two participants
\* nothing is pending anywhere: no timeout, no code-change the hub has not
\* handled, no code-update a panel has not handled
Quiescent ==
  \A k \in Panels : /\ ~debounceTimer[k].pending
                     /\ Relayed(k) = Len(emitted[k])
                     /\ nRemote[k] = Len(CodeUpdates(k))

\* C20 (as claimed) - Last-writer-wins convergence: when two participants of
\* one room, with different user ids, have each made local edits and every
\* timeout has expired and every relayed code-update has been delivered and
\* applied, both hold the same code buffer.
C20_Convergence ==
  (Quiescent /\ \A k \in Panels : nInput[k] >= 1) => code["c1"] = code["c2"]

====
